---- MODULE Spec2Model ----
(***************************************************************************)
(* Model of the numeric primitives of hagrid's src/common.h: round_div,    *)
(* safe_rcp, prodsign, float_to_ordered / ordered_to_float, icbrt, ilog2   *)
(* and the compile-time Log2.                                              *)
(*                                                                         *)
(* A machine word is the sequence of its bits, least significant bit       *)
(* first (w[1] is bit 0, w[32] is bit 31 of a 32-bit word).  A float is    *)
(* its IEEE-754 binary32 bit pattern, so that the bit-level code acts on   *)
(* it as the C++ does.  Integers of the checker are only used below 2^31.  *)
(***************************************************************************)
EXTENDS Integers, Sequences, FiniteSets, TLC

VARIABLES fn, pc, args, frame, ret

vars == <<fn, pc, args, frame, ret>>

(***************************************************************************)
(* Bounds of the input sets.                                               *)
(***************************************************************************)
\* exponent fields 0..ExpSpan and 254-ExpSpan..255 are drawn
ExpSpan == 1
\* mantissa fields 0..MantSpan and 2^23-1-MantSpan..2^23-1 are drawn
MantSpan == 1
\* round_div is called on i in -DivSpan..DivSpan and j in -DivSpan..DivSpan, j # 0
DivSpan == 12
\* icbrt is called around the cubes k^3 * 8^m, k in 1..CubeSpan
CubeSpan == 5
\* icbrt and ilog2 are called on 0..SmallSpan; icbrt also on INT_MAX - SmallSpan..INT_MAX
SmallSpan == 40

(***************************************************************************)
(* Fixed-width unsigned arithmetic on bit sequences.                       *)
(***************************************************************************)
\* bit k (0-based) of a natural number n < 2^31
BitOf(n, k) == IF k > 30 THEN 0 ELSE (n \div (2^k)) % 2

\* the w-bit word of a natural number n < 2^31 (truncated to w bits)
Word(n, w) == [k \in 1..w |-> BitOf(n, k - 1)]

\* the value of the n bits of a from position k on (n <= 30)
RECURSIVE Val(_, _, _)
Val(a, k, n) == IF n = 0 THEN 0 ELSE a[k] + 2 * Val(a, k + 1, n - 1)

\* the 32-bit word with the 16-bit halves hi and lo (an unsigned literal)
U32(hi, lo) == [k \in 1..32 |-> IF k <= 16 THEN BitOf(lo, k - 1) ELSE BitOf(hi, k - 17)]

Xor(a, b) == [k \in 1..Len(a) |-> (a[k] + b[k]) % 2]
And(a, b) == [k \in 1..Len(a) |-> a[k] * b[k]]
Or(a, b)  == [k \in 1..Len(a) |-> IF a[k] + b[k] > 0 THEN 1 ELSE 0]
Not(a)    == [k \in 1..Len(a) |-> 1 - a[k]]

\* a << n and a >> n (logical), 0 <= n < width
Shl(a, n) == [k \in 1..Len(a) |-> IF k > n THEN a[k - n] ELSE 0]
Shr(a, n) == [k \in 1..Len(a) |-> IF k + n <= Len(a) THEN a[k + n] ELSE 0]

\* 32-bit addition modulo 2^32, by 16-bit halves
Add(a, b) ==
    LET lo == Val(a, 1, 16) + Val(b, 1, 16)
        hi == Val(a, 17, 16) + Val(b, 17, 16) + lo \div 65536
    IN  U32(hi % 65536, lo % 65536)

\* two's complement negation and subtraction modulo 2^32
Neg(a) == Add(Not(a), Word(1, 32))
Sub(a, b) == Add(a, Neg(b))

\* 32-bit multiplication modulo 2^32: the sum of b << k over the set bits k of a
RECURSIVE MulFrom(_, _, _)
MulFrom(a, b, k) ==
    IF k > 32 THEN Word(0, 32)
    ELSE IF a[k] = 1 THEN Add(Shl(b, k - 1), MulFrom(a, b, k + 1))
    ELSE MulFrom(a, b, k + 1)
Mul(a, b) == MulFrom(a, b, 1)

\* the value of a 32-bit word read as an int (two's complement)
IntOf(a) == IF a[32] = 1 THEN Val(a, 1, 31) - 2147483647 - 1 ELSE Val(a, 1, 31)

\* unsigned comparison of two words of the same width
ULt(a, b) == \E k \in 1..Len(a) : /\ a[k] < b[k]
                                  /\ \A j \in (k + 1)..Len(a) : a[j] = b[j]

(***************************************************************************)
(* IEEE-754 binary32: the fields of a bit pattern and the comparisons.     *)
(***************************************************************************)
\* the float with sign s, exponent field e and mantissa field m
F(s, e, m) == [k \in 1..32 |-> IF k <= 23 THEN BitOf(m, k - 1)
                               ELSE IF k <= 31 THEN BitOf(e, k - 24) ELSE s]

SignOf(f) == f[32]
ExpOf(f)  == Val(f, 24, 8)
MantOf(f) == Val(f, 1, 23)
\* the 31 magnitude bits (exponent and mantissa)
MagOf(f)  == Val(f, 1, 23) + 8388608 * Val(f, 24, 8)

IsNaN(f)    == ExpOf(f) = 255 /\ MantOf(f) # 0
IsInf(f)    == ExpOf(f) = 255 /\ MantOf(f) = 0
IsZero(f)   == MagOf(f) = 0

\* the position of a non-NaN float on the number line: finite floats and the
\* infinities are monotonic in their magnitude bits, and -0 = +0
Rank(f) == IF SignOf(f) = 1 THEN 0 - MagOf(f) ELSE MagOf(f)

\* a == b of the language on floats (false when either is NaN)
FEq(a, b) == ~IsNaN(a) /\ ~IsNaN(b) /\ Rank(a) = Rank(b)

(***************************************************************************)
(* common.h                                                                *)
(***************************************************************************)
\* as<U>(t): the bits of t read as a U of the same size.  Floats are bit
\* patterns here, so the union leaves the representation as it is.
as(t) == t

\* float_to_ordered flipping the sign bit of every float, negative or not
float_to_ordered_signflip(f) ==
    LET u == as(f)
        mask == U32(32768, 0)
    IN  Xor(u, mask)

\* float_to_ordered without the "| 0x80000000u" of its mask
float_to_ordered_nomask(f) ==
    LET u == as(f)
        mask == Neg(Shr(u, 31))
    IN  Xor(u, mask)

\* float_to_ordered
float_to_ordered(f) ==
    LET u == as(f)
        mask == Or(Neg(Shr(u, 31)), U32(32768, 0))
    IN  Xor(u, mask)

\* ordered_to_float with the mask of float_to_ordered
ordered_to_float_encmask(u) ==
    LET mask == Or(Neg(Shr(u, 31)), U32(32768, 0))
    IN  as(Xor(u, mask))

\* ordered_to_float
ordered_to_float(u) ==
    LET mask == Or(Sub(Shr(u, 31), Word(1, 32)), U32(32768, 0))
    IN  as(Xor(u, mask))

\* round_div: the quotient and remainder of the language truncate toward zero
CDiv(i, j) ==
    LET q == (IF i < 0 THEN 0 - i ELSE i) \div (IF j < 0 THEN 0 - j ELSE j)
    IN  IF (i < 0) # (j < 0) THEN 0 - q ELSE q
CMod(i, j) == i - j * CDiv(i, j)

round_div(i, j) == CDiv(i, j) + (IF CMod(i, j) # 0 THEN 1 ELSE 0)

\* the number of doublings that bring n (0 < n < 2^24) into 2^23 .. 2^24 - 1
RECURSIVE NormShift(_)
NormShift(n) == IF n >= 8388608 THEN 0 ELSE 1 + NormShift(2 * n)

\* n more bits of the quotient of a long division by M: <<quotient, remainder>>
RECURSIVE LongDiv(_, _, _, _)
LongDiv(q, r, M, n) ==
    IF n = 0 THEN <<q, r>>
    ELSE IF 2 * r >= M THEN LongDiv(2 * q + 1, 2 * r - M, M, n - 1)
    ELSE LongDiv(2 * q, 2 * r, M, n - 1)

\* the float with sign s and the 31 magnitude bits mag
FromMag(s, mag) == [k \in 1..32 |-> IF k <= 31 THEN BitOf(mag, k - 1) ELSE s]

\* 1.0f / x in IEEE-754 binary32, rounded to nearest, ties to even
FRcp(x) ==
    LET s == SignOf(x)
        e == ExpOf(x)
        m == MantOf(x)
    IN  IF IsNaN(x) THEN Or(x, U32(64, 0))
        ELSE IF IsInf(x) THEN FromMag(s, 0)
        ELSE IF IsZero(x) THEN F(s, 255, 0)
        ELSE
          LET M0 == IF e = 0 THEN m ELSE 8388608 + m
              sh == NormShift(M0)
              M  == M0 * 2^sh
              \* x = M * 2^E with 2^23 <= M < 2^24
              E  == (IF e = 0 THEN 1 ELSE e) - 150 - sh
              \* 1/x = (sig + r/M) * 2^(be - 150), 2^23 <= sig < 2^24, 0 <= r < M
              qr == IF M = 8388608 THEN <<8388608, 0>>
                    ELSE LongDiv(1, 16777216 - M, M, 23)
              sig == qr[1]
              r   == qr[2]
              be  == IF M = 8388608 THEN 104 - E ELSE 103 - E
          IN  IF be >= 255 THEN F(s, 255, 0)
              ELSE IF be >= 1 THEN
                LET up  == IF 2 * r > M \/ (2 * r = M /\ sig % 2 = 1) THEN 1 ELSE 0
                    mag == (be - 1) * 8388608 + sig + up
                IN  IF mag >= 2139095040 THEN F(s, 255, 0) ELSE FromMag(s, mag)
              ELSE
                LET d    == 1 - be
                    half == 2^(d - 1)
                    t0   == sig \div (2 * half)
                    rem  == sig % (2 * half)
                    up   == IF \/ rem > half
                               \/ (rem = half /\ r > 0)
                               \/ (rem = half /\ r = 0 /\ t0 % 2 = 1)
                            THEN 1 ELSE 0
                IN  FromMag(s, t0 + up)

\* copysign(a, b): the magnitude of a with the sign of b
copysign(a, b) == [k \in 1..32 |-> IF k <= 31 THEN a[k] ELSE b[32]]

\* safe_rcp returning the positive infinity for either zero
safe_rcp_unsigned(x) ==
    IF ~FEq(x, F(0, 0, 0)) THEN FRcp(x) ELSE as(U32(32640, 0))

\* safe_rcp
safe_rcp(x) ==
    IF ~FEq(x, F(0, 0, 0)) THEN FRcp(x) ELSE copysign(as(U32(32640, 0)), x)

\* prodsign with | in the place of ^
prodsign_or(x, y) == as(Or(as(x), And(as(y), U32(32768, 0))))

\* prodsign
prodsign(x, y) == as(Xor(as(x), And(as(y), U32(32768, 0))))

\* the body of the loop of icbrt with x > b in the place of x >= b
icbrt_body_strict(x, y, s) ==
    LET y2 == Mul(Word(2, 32), y)
        b  == Shl(Add(Mul(Mul(Word(3, 32), y2), Add(y2, Word(1, 32))), Word(1, 32)), s)
    IN  IF ULt(b, x) THEN <<Sub(x, b), Add(y2, Word(1, 32))>>
        ELSE <<x, y2>>

\* icbrt, the body of the loop at shift s: <<x, y>> after the iteration.
\* x is the int argument as its 32 bits; x >= b and x - b are unsigned, as the
\* usual arithmetic conversions of int with unsigned make them.
icbrt_body(x, y, s) ==
    LET y2 == Mul(Word(2, 32), y)
        b  == Shl(Add(Mul(Mul(Word(3, 32), y2), Add(y2, Word(1, 32))), Word(1, 32)), s)
    IN  IF ~ULt(x, b) THEN <<Sub(x, b), Add(y2, Word(1, 32))>>
        ELSE <<x, y2>>

\* Log2<N, I>::Value
RECURSIVE Log2(_, _)
Log2(N, I) == IF N = 1 THEN I ELSE Log2(N \div 2, I + 1)

\* sizeof(T) of the unsigned type a word t is a value of
sizeof(t) == Len(t) \div 8

\* the body of the loop of ilog2 with a = m in the place of a = m + 1
ilog2_body_floor(a, b, t) ==
    LET all  == [k \in 1..Len(t) |-> 1]
        m    == (a + b) \div 2
        mask == Shl(all, m)
    IN  IF And(t, mask) # [k \in 1..Len(t) |-> 0] THEN <<m, b>>
        ELSE <<a, m>>

\* ilog2, the body of the loop: <<a, b>> after the iteration.  m stays below
\* the width of T in every iteration the loop runs, so all << T(m) is defined.
ilog2_body(a, b, t) ==
    LET all  == [k \in 1..Len(t) |-> 1]
        m    == (a + b) \div 2
        mask == Shl(all, m)
    IN  IF And(t, mask) # [k \in 1..Len(t) |-> 0] THEN <<m + 1, b>>
        ELSE <<a, m>>

(***************************************************************************)
(* Inputs.                                                                 *)
(***************************************************************************)
Exps  == (0..ExpSpan) \cup ((254 - ExpSpan)..255)
Mants == (0..MantSpan) \cup ((8388607 - MantSpan)..8388607)

\* 0.5, 1, 2, 3, 4, 5 and their negatives
Examples == {F(s, e, m) : s \in 0..1,
                          e \in {126}, m \in {0}}
            \cup {F(s, 127, 0) : s \in 0..1}
            \cup {F(s, 128, m) : s \in 0..1, m \in {0, 4194304}}
            \cup {F(s, 129, m) : s \in 0..1, m \in {0, 2097152}}

Floats == {F(s, e, m) : s \in 0..1, e \in Exps, m \in Mants} \cup Examples

\* i and j of round_div; j = 0 is no input (the division is undefined)
DivInputs == {<<i, j>> \in ((0 - DivSpan)..DivSpan) \X ((0 - DivSpan)..DivSpan) : j # 0}

\* x of icbrt, 0 <= x < 2^31: small values, the neighbours of the perfect
\* cubes (k * 2^m)^3, and the largest ints
Cubes == {km[1] * km[1] * km[1] * 8^km[2] :
             km \in {c \in (1..CubeSpan) \X (0..10) :
                       c[1] * c[1] * c[1] <= 2147483646 \div 8^c[2]}}
IcbrtInputs == (0..SmallSpan)
               \cup {c + d : c \in Cubes, d \in {0 - 1, 0, 1}}
               \cup {2147483647 - d : d \in 0..SmallSpan}

\* 2^k, 2^k - 1 and 2^k + 1 as words of width w
PowerOf2(k, w)   == [j \in 1..w |-> IF j = k + 1 THEN 1 ELSE 0]
BelowPower(k, w) == [j \in 1..w |-> IF j <= k THEN 1 ELSE 0]
AbovePower(k, w) == [j \in 1..w |-> IF j = k + 1 \/ j = 1 THEN 1 ELSE 0]

\* t of ilog2<T> for the unsigned types of 1, 2, 4 and 8 bytes: every uint8_t,
\* and for the wider types the small values and the neighbours of the powers of two
Ilog2Inputs ==
    {Word(n, 8) : n \in 0..255}
    \cup UNION {{Word(n, w) : n \in 0..SmallSpan}
                \cup {PowerOf2(k, w) : k \in 0..(w - 1)}
                \cup {BelowPower(k, w) : k \in 0..w}
                \cup {AbovePower(k, w) : k \in 0..(w - 1)} : w \in {16, 32, 64}}

(***************************************************************************)
(* The state machine: one call (or chain of calls) per behaviour.          *)
(***************************************************************************)
Init ==
    \/ /\ fn = "float_to_ordered"
       /\ pc = "call"
       /\ \E f \in Floats, g \in Floats : args = <<f, g>>
       /\ frame = [keys |-> <<>>, back |-> <<>>]
       /\ ret = <<>>
    \/ /\ fn = "prodsign"
       /\ pc = "call"
       /\ \E x \in Floats, y \in Floats : args = <<x, y>>
       /\ frame = <<>>
       /\ ret = <<>>
    \/ /\ fn = "safe_rcp"
       /\ pc = "call"
       /\ \E x \in Floats : args = <<x>>
       /\ frame = <<>>
       /\ ret = <<>>
    \/ /\ fn = "round_div"
       /\ pc = "call"
       /\ args \in DivInputs
       /\ frame = <<>>
       /\ ret = <<>>
    \/ /\ fn = "icbrt"
       /\ pc = "loop"
       /\ \E n \in IcbrtInputs :
             /\ args = <<n>>
             /\ frame = [x |-> Word(n, 32), y |-> Word(0, 32), s |-> 30]
       /\ ret = <<>>
    \/ /\ fn = "ilog2"
       /\ pc = "loop"
       /\ \E t \in Ilog2Inputs :
             /\ args = <<t>>
             /\ frame = [a |-> 0, b |-> sizeof(t) * 8, i |-> 0]
       /\ ret = <<>>

\* float_to_ordered is applied to the next float of the pair
FloatToOrdered ==
    /\ fn = "float_to_ordered"
    /\ Len(frame.keys) < Len(args)
    /\ frame' = [frame EXCEPT !.keys = Append(@, float_to_ordered(args[Len(@) + 1]))]
    /\ UNCHANGED <<fn, pc, args, ret>>

\* ordered_to_float is applied to the next key
OrderedToFloat ==
    /\ fn = "float_to_ordered"
    /\ Len(frame.back) < Len(frame.keys)
    /\ frame' = [frame EXCEPT !.back = Append(@, ordered_to_float(frame.keys[Len(@) + 1]))]
    /\ UNCHANGED <<fn, pc, args, ret>>

ProdSign ==
    /\ fn = "prodsign"
    /\ pc = "call"
    /\ ret' = prodsign(args[1], args[2])
    /\ pc' = "done"
    /\ UNCHANGED <<fn, args, frame>>

SafeRcp ==
    /\ fn = "safe_rcp"
    /\ pc = "call"
    /\ ret' = safe_rcp(args[1])
    /\ pc' = "done"
    /\ UNCHANGED <<fn, args, frame>>

RoundDiv ==
    /\ fn = "round_div"
    /\ pc = "call"
    /\ ret' = round_div(args[1], args[2])
    /\ pc' = "done"
    /\ UNCHANGED <<fn, args, frame>>

\* one iteration of the loop of icbrt
IcbrtIter ==
    /\ fn = "icbrt"
    /\ pc = "loop"
    /\ frame.s >= 0
    /\ LET xy == icbrt_body(frame.x, frame.y, frame.s)
       IN  frame' = [x |-> xy[1], y |-> xy[2], s |-> frame.s - 3]
    /\ UNCHANGED <<fn, pc, args, ret>>

\* return y, converted to int
IcbrtReturn ==
    /\ fn = "icbrt"
    /\ pc = "loop"
    /\ frame.s < 0
    /\ ret' = IntOf(frame.y)
    /\ pc' = "done"
    /\ UNCHANGED <<fn, args, frame>>

\* one iteration of the loop of ilog2, which runs Log2<sizeof(T) * 8>::Value times
Ilog2Iter ==
    /\ fn = "ilog2"
    /\ pc = "loop"
    /\ frame.i < Log2(sizeof(args[1]) * 8, 0)
    /\ LET ab == ilog2_body(frame.a, frame.b, args[1])
       IN  frame' = [a |-> ab[1], b |-> ab[2], i |-> frame.i + 1]
    /\ UNCHANGED <<fn, pc, args, ret>>

\* return a
Ilog2Return ==
    /\ fn = "ilog2"
    /\ pc = "loop"
    /\ ~(frame.i < Log2(sizeof(args[1]) * 8, 0))
    /\ ret' = frame.a
    /\ pc' = "done"
    /\ UNCHANGED <<fn, args, frame>>

Next ==
    \/ FloatToOrdered
    \/ OrderedToFloat
    \/ ProdSign
    \/ SafeRcp
    \/ RoundDiv
    \/ IcbrtIter
    \/ IcbrtReturn
    \/ Ilog2Iter
    \/ Ilog2Return

Spec == Init /\ [][Next]_vars

(***************************************************************************)
(* Properties.                                                             *)
(***************************************************************************)
\* a finite float: neither an infinity nor a NaN
IsFinite(f) == ExpOf(f) # 255

\* a < b of the language on floats (false when either is NaN)
FLt(a, b) == ~IsNaN(a) /\ ~IsNaN(b) /\ Rank(a) < Rank(b)

\* both floats of the pair have been encoded
Encoded == fn = "float_to_ordered" /\ Len(frame.keys) = 2

\* t <= 2^a, the power of two taken in the integers (not wrapped to the width of t)
Covers(a, t) ==
    ~ULt([k \in 1..(Len(t) + 1) |-> IF k = a + 1 THEN 1 ELSE 0], Append(t, 0))

\* C1: ordered_to_float(float_to_ordered(x)) has the bit pattern of x, for
\* every finite float x.
C1_RoundTrip ==
    fn = "float_to_ordered" =>
        \A k \in 1..Len(frame.back) : IsFinite(args[k]) => frame.back[k] = args[k]

\* -0.0 and the smallest subnormal have been encoded and decoded
C1_Witness ==
    /\ fn = "float_to_ordered"
    /\ args = <<F(1, 0, 0), F(0, 0, 1)>>
    /\ Len(frame.back) = 2
    /\ frame.back = args

\* C2: for finite floats a < b, float_to_ordered(a) < float_to_ordered(b) as
\* unsigned 32-bit integers.
C2_OrderPreserved ==
    (Encoded /\ IsFinite(args[1]) /\ IsFinite(args[2]) /\ FLt(args[1], args[2]))
        => ULt(frame.keys[1], frame.keys[2])

\* the most negative finite float and a negative subnormal have been encoded
C2_Witness ==
    /\ Encoded
    /\ args = <<F(1, 254, 8388607), F(1, 0, 1)>>
    /\ FLt(args[1], args[2])
    /\ ULt(frame.keys[1], frame.keys[2])

\* C3, as stated: for finite floats a and b, a < b if and only if
\* float_to_ordered(a) < float_to_ordered(b).
C3_OrderEquivalent ==
    (Encoded /\ IsFinite(args[1]) /\ IsFinite(args[2]))
        => (FLt(args[1], args[2]) <=> ULt(frame.keys[1], frame.keys[2]))

\* C3, amended: for finite floats a and b, float_to_ordered(a) <
\* float_to_ordered(b) if and only if a < b, or a is -0.0 and b is +0.0.
C3_OrderEquivalentButZeros ==
    (Encoded /\ IsFinite(args[1]) /\ IsFinite(args[2]))
        => (ULt(frame.keys[1], frame.keys[2])
              <=> (FLt(args[1], args[2]) \/ args = <<F(1, 0, 0), F(0, 0, 0)>>))

\* -0.0 and +0.0 compare equal and their keys are 0x7fffffff and 0x80000000
C3_Witness ==
    /\ Encoded
    /\ args = <<F(1, 0, 0), F(0, 0, 0)>>
    /\ FEq(args[1], args[2])
    /\ frame.keys = <<U32(32767, 65535), U32(32768, 0)>>

\* C4: for 0 <= x < 2^31, icbrt(x) is the integer y with y^3 <= x < (y+1)^3;
\* icbrt(0) = 0, icbrt(7) = 1, icbrt(8) = 2, icbrt(26) = 2, icbrt(27) = 3.
\* (y^3 <= x is y <= x \div y^2, and x < (y+1)^3 is x \div (y+1)^2 < y + 1.)
C4_CubeRoot ==
    (fn = "icbrt" /\ pc = "done") =>
        LET x == args[1]
            y == ret
        IN  /\ y >= 0
            /\ y < 2048
            /\ y > 0 => y <= x \div (y * y)
            /\ x \div ((y + 1) * (y + 1)) < y + 1
            /\ x = 0 => y = 0
            /\ x = 7 => y = 1
            /\ x = 8 => y = 2
            /\ x = 26 => y = 2
            /\ x = 27 => y = 3

\* icbrt(INT_MAX) has returned 1290
C4_Witness ==
    /\ fn = "icbrt"
    /\ pc = "done"
    /\ args = <<2147483647>>
    /\ ret = 1290

\* C5: for t > 0, ilog2(t) is the smallest a with (1 << a) >= t.
C5_CeilingLog2 ==
    (fn = "ilog2" /\ pc = "done" /\ args[1] # [k \in 1..Len(args[1]) |-> 0]) =>
        /\ Covers(ret, args[1])
        /\ ret > 0 => ~Covers(ret - 1, args[1])

\* C6: for N = 2^k, Log2<N>::Value = ilog2(N)  (k <= 30, the powers of two
\* that are integers of the checker).
C6_Log2Agrees ==
    (fn = "ilog2" /\ pc = "done") =>
        \A k \in 0..30 :
            (k < Len(args[1]) /\ args[1] = [j \in 1..Len(args[1]) |-> IF j = k + 1 THEN 1 ELSE 0])
                => ret = Log2(2^k, 0)

\* C7: r = ilog2(x) satisfies 2^r >= x and 0 <= r <= w, for every x of a
\* w-bit unsigned type.
C7_CoveringPower ==
    (fn = "ilog2" /\ pc = "done") =>
        /\ 0 <= ret
        /\ ret <= Len(args[1])
        /\ Covers(ret, args[1])

\* ilog2 of the largest uint32_t has returned 32
C7_Witness ==
    /\ fn = "ilog2"
    /\ pc = "done"
    /\ args = <<[k \in 1..32 |-> 1]>>
    /\ ret = 32

\* C8: safe_rcp of a zero is the infinity with the sign bit of the zero, never
\* a NaN; safe_rcp of a nonzero x is 1/x: safe_rcp(2.0) = 0.5, and the
\* reciprocal of a power of two 2^k is 2^-k where both are normal floats.
C8_SafeRcp ==
    (fn = "safe_rcp" /\ pc = "done") =>
        LET x == args[1]
        IN  /\ IsZero(x) => ret = U32(32640 + 32768 * SignOf(x), 0)
            /\ ~IsNaN(x) => ~IsNaN(ret)
            /\ ~IsZero(x) => ret = FRcp(x)
            /\ x = U32(16384, 0) => ret = U32(16128, 0)
            /\ (MantOf(x) = 0 /\ ExpOf(x) >= 1 /\ ExpOf(x) <= 253)
                  => ret = F(SignOf(x), 254 - ExpOf(x), 0)

\* safe_rcp(-0.0) has returned 0xff800000
C8_Witness ==
    /\ fn = "safe_rcp"
    /\ pc = "done"
    /\ args = <<U32(32768, 0)>>
    /\ ret = U32(65408, 0)

\* C9: prodsign(x, y) has the magnitude bits of x and the sign bit
\* sign(x) XOR sign(y); prodsign(3.0, -2.0) = -3.0, prodsign(-5.0, -1.0) = 5.0,
\* prodsign(4.0, +0.0) = 4.0.
C9_ProdSign ==
    (fn = "prodsign" /\ pc = "done") =>
        LET x == args[1]
            y == args[2]
        IN  /\ MagOf(ret) = MagOf(x)
            /\ SignOf(ret) = (SignOf(x) + SignOf(y)) % 2
            /\ args = <<U32(16448, 0), U32(49152, 0)>> => ret = U32(49216, 0)
            /\ args = <<U32(49312, 0), U32(49024, 0)>> => ret = U32(16544, 0)
            /\ args = <<U32(16512, 0), U32(0, 0)>> => ret = U32(16512, 0)

\* prodsign(-5.0, -1.0) has returned 5.0
C9_Witness ==
    /\ fn = "prodsign"
    /\ pc = "done"
    /\ args = <<U32(49312, 0), U32(49024, 0)>>
    /\ ret = U32(16544, 0)

\* C10: for i >= 0 and j > 0, round_div(i, j) * j > i.
C10_RoundDivExceeds ==
    (fn = "round_div" /\ pc = "done" /\ args[1] >= 0 /\ args[2] > 0) =>
        ret * args[2] > args[1]

====
